---- MODULE Spec2Model ----
(***************************************************************************)
(* The application workflow of AICTE Setu: the request handlers of the     *)
(* server routes that write the applications, timeline stages, evaluator   *)
(* assignments and evaluations, and the script that seeds sample           *)
(* applications.  Every awaited database statement of a handler is one     *)
(* step, so the states between two writes of a handler are states of the   *)
(* model.                                                                  *)
(*                                                                         *)
(* Rows carry the columns the workflow reads or writes.  A row's id is its *)
(* position in its table.  Columns that no handler reads back (names,      *)
(* addresses, scores, comments, priority, deadline, updatedAt) are left    *)
(* out.  Requests are the ones that passed requireAuth, requireRole and    *)
(* the zod validation of the body.                                         *)
(***************************************************************************)
EXTENDS Integers, Sequences, FiniteSets, TLC

\* ------------------------------------------------------------------ bounds
MaxInFlight == 2      \* handlers that may be between two awaits at once
MaxCalls == 4         \* calls of all kinds in one run
MaxSeedRuns == 2      \* runs of the seed script
MaxCreates == 1       \* POST /api/applications calls
MaxSubmits == 2       \* POST /api/applications/:id/submit calls
MaxSetStatus == 1     \* PUT /api/admin/applications/:id/status calls
MaxAssigns == 1       \* POST /api/admin/assign-evaluator calls
MaxRecords == 2       \* POST /api/evaluations calls
MaxDocs == 5          \* document rows in a run of the tracker
MaxOverrides == 2     \* status overrides in a run of seed, create and override calls

\* --------------------------------------------------------------- constants
NULL == 0             \* a null column, or findFirst finding no row
PastDate == 1         \* the literal submission dates of the sample applications
UnknownId == 0        \* an id in a request body that matches no row

Statuses ==
  {"draft", "submitted", "scrutiny", "document_verification",
   "under_evaluation", "approved", "rejected"}

Recommendations == {"Approve", "Reject"}

InstitutionUsers == {"u_inst"}
EvaluatorUsers == {"u_eval"}

\* institutions.id of the institution registered by a user
InstitutionOf(u) == u

sampleApplications ==
  << [applicationNumber |-> "AICTE/2025/001", status |-> "under_evaluation"],
     [applicationNumber |-> "AICTE/2025/002", status |-> "document_verification"],
     [applicationNumber |-> "AICTE/2025/003", status |-> "submitted"],
     [applicationNumber |-> "AICTE/2025/004", status |-> "approved"],
     [applicationNumber |-> "AICTE/2025/089", status |-> "rejected"] >>

\* status of the j-th sample document of a sample application with status st
documentCategories(st) ==
  << [category |-> "Institution Registration",
      status |-> IF st = "approved" THEN "approved"
                 ELSE IF st = "rejected" THEN "rejected" ELSE "approved"],
     [category |-> "Building Plan",
      status |-> IF st = "under_evaluation" THEN "approved"
                 ELSE IF st = "document_verification" THEN "pending" ELSE "approved"],
     [category |-> "Faculty Details",
      status |-> IF st = "under_evaluation" THEN "pending"
                 ELSE IF st = "rejected" THEN "rejected" ELSE "approved"],
     [category |-> "Infrastructure Report",
      status |-> IF st = "document_verification" THEN "pending"
                 ELSE IF st = "submitted" THEN "pending" ELSE "approved"],
     [category |-> "Financial Statements",
      status |-> IF st = "rejected" THEN "rejected"
                 ELSE IF st = "submitted" THEN "pending" ELSE "approved"] >>

\* the five stages the seed script gives a sample application with status st
stages(st) ==
  << [title |-> "Application Submitted", status |-> "completed"],
     [title |-> "Initial Scrutiny",
      status |-> IF st = "submitted" THEN "current" ELSE "completed"],
     [title |-> "Document Verification",
      status |-> IF st = "document_verification" THEN "current"
                 ELSE IF st = "submitted" THEN "pending" ELSE "completed"],
     [title |-> "Evaluation",
      status |-> IF st = "under_evaluation" THEN "current"
                 ELSE IF st \in {"approved", "rejected"} THEN "completed" ELSE "pending"],
     [title |-> "Final Decision",
      status |-> IF st \in {"approved", "rejected"} THEN "completed" ELSE "pending"] >>

\* the six stages POST /api/applications gives a new application
timelineStagesData ==
  << [title |-> "Application Submitted", status |-> "current"],
     [title |-> "Initial Scrutiny", status |-> "pending"],
     [title |-> "Document Verification", status |-> "pending"],
     [title |-> "Evaluator Assignment", status |-> "pending"],
     [title |-> "Site Visit & Evaluation", status |-> "pending"],
     [title |-> "Final Approval", status |-> "pending"] >>

\* the application number generated for the n-th created application
appNumber(n) == "APP-" \o ToString(n)

\* ------------------------------------------------------------------- state
VARIABLES
  applications,          \* table: applicationNumber, institutionId, status, submittedAt
  documents,             \* table: applicationId, category, status
  timelineStages,        \* table: applicationId, title, status, completedAt
  evaluatorAssignments,  \* table: applicationId, evaluatorId, completedAt
  evaluations,           \* table: assignmentId, applicationId, evaluatorId, recommendation
  reqs,                  \* the handlers in flight, with their parameters and locals
  response,              \* the response sent by the last step, if it sent one
  calls                  \* how many calls of each kind have been started

db == <<applications, documents, timelineStages, evaluatorAssignments, evaluations>>
vars == <<applications, documents, timelineStages, evaluatorAssignments, evaluations,
          reqs, response, calls>>

Slots == 1..MaxInFlight

Idle ==
  [kind |-> "idle", pc |-> "idle", user |-> "-", number |-> "-",
   applicationId |-> 0, evaluatorId |-> "-", assignmentId |-> 0,
   status |-> "-", recommendation |-> "-",
   application |-> 0, read |-> "-", i |-> 0, j |-> 0,
   assignment |-> 0, evaluation |-> 0,
   allApplications |-> << >>, result |-> << >>]

NoResponse == [code |-> 0, req |-> Idle]

Started == calls.seed + calls.create + calls.submit + calls.setStatus
             + calls.assign + calls.record

\* new Date(): the clock advances whenever a call arrives
Now == 1 + Started

InFlight == {s \in Slots : reqs[s].pc # "idle"}

\* a call arrives while fewer than k handlers are in flight
Arrive(s, k, kind, max) ==
  /\ Cardinality(InFlight) < k
  /\ reqs[s].pc = "idle"
  /\ \A t \in Slots : t < s => reqs[t].pc # "idle"
  /\ calls[kind] < max
  /\ Started < MaxCalls
  /\ calls' = [calls EXCEPT ![kind] = @ + 1]
  /\ response' = NoResponse
  /\ UNCHANGED db

\* the handler in slot s moves on to its next await
Goto(s, r) == reqs' = [reqs EXCEPT ![s] = r] /\ response' = NoResponse

\* the handler in slot s sends its response and ends
Respond(s, code) ==
  /\ reqs' = [reqs EXCEPT ![s] = Idle]
  /\ response' = [code |-> code, req |-> reqs[s]]

\* db.query.applications.findFirst by application number: the id, or NULL
findByNumber(n) ==
  IF \E a \in 1..Len(applications) : applications[a].applicationNumber = n
  THEN CHOOSE a \in 1..Len(applications) :
         /\ applications[a].applicationNumber = n
         /\ \A b \in 1..(a - 1) : applications[b].applicationNumber # n
  ELSE NULL

Init ==
  /\ applications = << >>
  /\ documents = << >>
  /\ timelineStages = << >>
  /\ evaluatorAssignments = << >>
  /\ evaluations = << >>
  /\ reqs = [s \in Slots |-> Idle]
  /\ response = NoResponse
  /\ calls = [seed |-> 0, create |-> 0, submit |-> 0, setStatus |-> 0,
              assign |-> 0, record |-> 0]

\* ------------------------------------------------ POST /api/applications
StartCreate(s, k) ==
  /\ Arrive(s, k, "create", MaxCreates)
  /\ \E u \in InstitutionUsers :
       reqs' = [reqs EXCEPT ![s] =
                  [Idle EXCEPT !.kind = "create", !.pc = "findInstitution",
                               !.user = u,
                               !.number = appNumber(calls.create + 1)]]

CreateFindInstitution(s) ==
  /\ reqs[s].kind = "create" /\ reqs[s].pc = "findInstitution"
  /\ IF reqs[s].user \in InstitutionUsers
     THEN Goto(s, [reqs[s] EXCEPT !.pc = "insertApplication"])
     ELSE Respond(s, 404)
  /\ UNCHANGED <<db, calls>>

CreateInsertApplication(s) ==
  /\ reqs[s].kind = "create" /\ reqs[s].pc = "insertApplication"
  /\ applications' = Append(applications,
       [applicationNumber |-> reqs[s].number,
        institutionId |-> InstitutionOf(reqs[s].user),
        status |-> "draft", submittedAt |-> NULL])
  /\ Goto(s, [reqs[s] EXCEPT !.pc = "insertStages",
                             !.application = Len(applications) + 1])
  /\ UNCHANGED <<documents, timelineStages, evaluatorAssignments, evaluations, calls>>

\* a variant that inserts the first stage as already completed
CreateInsertStages_FirstCompleted(s) ==
  /\ reqs[s].kind = "create" /\ reqs[s].pc = "insertStages"
  /\ timelineStages' = timelineStages \o
       [n \in 1..Len(timelineStagesData) |->
          [applicationId |-> reqs[s].application,
           title |-> timelineStagesData[n].title,
           status |-> IF n = 1 THEN "completed" ELSE timelineStagesData[n].status,
           completedAt |-> IF n = 1 THEN Now ELSE NULL]]
  /\ Respond(s, 200)
  /\ UNCHANGED <<applications, documents, evaluatorAssignments, evaluations, calls>>

CreateInsertStages(s) ==
  /\ reqs[s].kind = "create" /\ reqs[s].pc = "insertStages"
  /\ timelineStages' = timelineStages \o
       [n \in 1..Len(timelineStagesData) |->
          [applicationId |-> reqs[s].application,
           title |-> timelineStagesData[n].title,
           status |-> timelineStagesData[n].status,
           completedAt |-> NULL]]
  /\ Respond(s, 200)
  /\ UNCHANGED <<applications, documents, evaluatorAssignments, evaluations, calls>>

\* ------------------------------------------------------ the seed script
StartSeed(s, k) ==
  /\ Arrive(s, k, "seed", MaxSeedRuns)
  /\ reqs' = [reqs EXCEPT ![s] =
                [Idle EXCEPT !.kind = "seed", !.pc = "findExisting",
                             !.user = "u_inst", !.evaluatorId = "u_eval", !.i = 1]]

\* the seed script goes on to the next sample application, or exits
SeedNext(s) ==
  IF reqs[s].i < Len(sampleApplications)
  THEN Goto(s, [reqs[s] EXCEPT !.pc = "findExisting", !.i = @ + 1,
                               !.j = 0, !.application = 0, !.assignment = 0])
  ELSE Respond(s, 0)

SeedFindExisting(s) ==
  /\ reqs[s].kind = "seed" /\ reqs[s].pc = "findExisting"
  /\ IF findByNumber(sampleApplications[reqs[s].i].applicationNumber) = NULL
     THEN Goto(s, [reqs[s] EXCEPT !.pc = "insertApplication"])
     ELSE SeedNext(s)
  /\ UNCHANGED <<db, calls>>

SeedInsertApplication(s) ==
  /\ reqs[s].kind = "seed" /\ reqs[s].pc = "insertApplication"
  /\ applications' = Append(applications,
       [applicationNumber |-> sampleApplications[reqs[s].i].applicationNumber,
        institutionId |-> InstitutionOf(reqs[s].user),
        status |-> sampleApplications[reqs[s].i].status,
        submittedAt |-> PastDate])
  /\ Goto(s, [reqs[s] EXCEPT !.pc = "insertDocument", !.j = 1,
                             !.application = Len(applications) + 1])
  /\ UNCHANGED <<documents, timelineStages, evaluatorAssignments, evaluations, calls>>

SeedInsertDocument(s) ==
  /\ reqs[s].kind = "seed" /\ reqs[s].pc = "insertDocument"
  /\ LET st == sampleApplications[reqs[s].i].status
         doc == documentCategories(st)[reqs[s].j]
     IN /\ documents' = Append(documents,
             [applicationId |-> reqs[s].application,
              category |-> doc.category, status |-> doc.status])
        /\ IF reqs[s].j < Len(documentCategories(st))
           THEN Goto(s, [reqs[s] EXCEPT !.j = @ + 1])
           ELSE IF st # "submitted" /\ st # "draft"
           THEN Goto(s, [reqs[s] EXCEPT !.pc = "insertAssignment", !.j = 0])
           ELSE Goto(s, [reqs[s] EXCEPT !.pc = "insertStage", !.j = 1])
  /\ UNCHANGED <<applications, timelineStages, evaluatorAssignments, evaluations, calls>>

SeedInsertAssignment(s) ==
  /\ reqs[s].kind = "seed" /\ reqs[s].pc = "insertAssignment"
  /\ LET st == sampleApplications[reqs[s].i].status
     IN /\ evaluatorAssignments' = Append(evaluatorAssignments,
             [applicationId |-> reqs[s].application,
              evaluatorId |-> reqs[s].evaluatorId,
              completedAt |-> IF st = "approved" \/ st = "rejected" THEN Now ELSE NULL])
        /\ IF st = "approved" \/ st = "rejected" \/ st = "under_evaluation"
           THEN Goto(s, [reqs[s] EXCEPT !.pc = "insertEvaluation",
                                        !.assignment = Len(evaluatorAssignments) + 1])
           ELSE Goto(s, [reqs[s] EXCEPT !.pc = "insertStage", !.j = 1,
                                        !.assignment = Len(evaluatorAssignments) + 1])
  /\ UNCHANGED <<applications, documents, timelineStages, evaluations, calls>>

SeedInsertEvaluation(s) ==
  /\ reqs[s].kind = "seed" /\ reqs[s].pc = "insertEvaluation"
  /\ LET st == sampleApplications[reqs[s].i].status
     IN evaluations' = Append(evaluations,
          [assignmentId |-> reqs[s].assignment,
           applicationId |-> reqs[s].application,
           evaluatorId |-> reqs[s].evaluatorId,
           recommendation |-> IF st = "approved" THEN "Approve"
                              ELSE IF st = "rejected" THEN "Reject" ELSE "Under Review"])
  /\ Goto(s, [reqs[s] EXCEPT !.pc = "insertStage", !.j = 1])
  /\ UNCHANGED <<applications, documents, timelineStages, evaluatorAssignments, calls>>

SeedInsertStage(s) ==
  /\ reqs[s].kind = "seed" /\ reqs[s].pc = "insertStage"
  /\ LET st == sampleApplications[reqs[s].i].status
         stage == stages(st)[reqs[s].j]
     IN /\ timelineStages' = Append(timelineStages,
             [applicationId |-> reqs[s].application,
              title |-> stage.title, status |-> stage.status,
              completedAt |-> IF stage.status = "completed" THEN Now ELSE NULL])
        /\ IF reqs[s].j < Len(stages(st))
           THEN Goto(s, [reqs[s] EXCEPT !.j = @ + 1])
           ELSE SeedNext(s)
  /\ UNCHANGED <<applications, documents, evaluatorAssignments, evaluations, calls>>

\* ------------------------------------- the parameters that clients send
\* application numbers put in a URL: a created one, a sample one, a wrong one
NumberInputs == {appNumber(1), "AICTE/2025/001", "APP-000000"}

\* application ids put in a request body
ApplicationIdInputs ==
  {a \in 1..Len(applications) : applications[a].applicationNumber \in NumberInputs}
    \cup {UnknownId}

\* assignment ids put in a request body
AssignmentIdInputs ==
  {g \in 1..Len(evaluatorAssignments) :
     evaluatorAssignments[g].applicationId \in ApplicationIdInputs} \cup {UnknownId}

\* --------------------------------- POST /api/applications/:id/submit
StartSubmit(s, k) ==
  /\ Arrive(s, k, "submit", MaxSubmits)
  /\ \E u \in InstitutionUsers, n \in NumberInputs :
       reqs' = [reqs EXCEPT ![s] =
                  [Idle EXCEPT !.kind = "submit", !.pc = "findApplication",
                               !.user = u, !.number = n]]

\* a variant without the check for a missing application: reading
\* application.id of undefined throws, and the handler answers 500
SubmitFindApplication_Unchecked(s) ==
  /\ reqs[s].kind = "submit" /\ reqs[s].pc = "findApplication"
  /\ LET application == findByNumber(reqs[s].number)
     IN IF application = NULL
        THEN Respond(s, 500)
        ELSE Goto(s, [reqs[s] EXCEPT !.pc = "updateApplication",
                                     !.application = application,
                                     !.read = applications[application].status])
  /\ UNCHANGED <<db, calls>>

SubmitFindApplication(s) ==
  /\ reqs[s].kind = "submit" /\ reqs[s].pc = "findApplication"
  /\ LET application == findByNumber(reqs[s].number)
     IN IF application = NULL
        THEN Respond(s, 404)
        ELSE Goto(s, [reqs[s] EXCEPT !.pc = "updateApplication",
                                     !.application = application,
                                     !.read = applications[application].status])
  /\ UNCHANGED <<db, calls>>

\* a variant in which submitting again sends the documents of the
\* application back to verification
SubmitUpdateApplication_ResetDocuments(s) ==
  /\ reqs[s].kind = "submit" /\ reqs[s].pc = "updateApplication"
  /\ applications' = [applications EXCEPT ![reqs[s].application] =
                        [@ EXCEPT !.status = "submitted", !.submittedAt = Now]]
  /\ documents' =
       [n \in 1..Len(documents) |->
          IF documents[n].applicationId = reqs[s].application
          THEN [documents[n] EXCEPT !.status = "pending"]
          ELSE documents[n]]
  /\ Goto(s, [reqs[s] EXCEPT !.pc = "completeSubmitted"])
  /\ UNCHANGED <<timelineStages, evaluatorAssignments, evaluations, calls>>

SubmitUpdateApplication(s) ==
  /\ reqs[s].kind = "submit" /\ reqs[s].pc = "updateApplication"
  /\ applications' = [applications EXCEPT ![reqs[s].application] =
                        [@ EXCEPT !.status = "submitted", !.submittedAt = Now]]
  /\ Goto(s, [reqs[s] EXCEPT !.pc = "completeSubmitted"])
  /\ UNCHANGED <<documents, timelineStages, evaluatorAssignments, evaluations, calls>>

\* a variant that records the submission as a new completed stage instead
\* of updating the existing one
SubmitCompleteSubmitted_Insert(s) ==
  /\ reqs[s].kind = "submit" /\ reqs[s].pc = "completeSubmitted"
  /\ timelineStages' = Append(timelineStages,
       [applicationId |-> reqs[s].application,
        title |-> "Application Submitted",
        status |-> "completed", completedAt |-> Now])
  /\ Goto(s, [reqs[s] EXCEPT !.pc = "advanceScrutiny"])
  /\ UNCHANGED <<applications, documents, evaluatorAssignments, evaluations, calls>>

SubmitCompleteSubmitted(s) ==
  /\ reqs[s].kind = "submit" /\ reqs[s].pc = "completeSubmitted"
  /\ timelineStages' =
       [n \in 1..Len(timelineStages) |->
          IF /\ timelineStages[n].applicationId = reqs[s].application
             /\ timelineStages[n].title = "Application Submitted"
          THEN [timelineStages[n] EXCEPT !.status = "completed", !.completedAt = Now]
          ELSE timelineStages[n]]
  /\ Goto(s, [reqs[s] EXCEPT !.pc = "advanceScrutiny"])
  /\ UNCHANGED <<applications, documents, evaluatorAssignments, evaluations, calls>>

\* a variant that advances the wrong stage
SubmitAdvanceScrutiny_WrongTitle(s) ==
  /\ reqs[s].kind = "submit" /\ reqs[s].pc = "advanceScrutiny"
  /\ timelineStages' =
       [n \in 1..Len(timelineStages) |->
          IF /\ timelineStages[n].applicationId = reqs[s].application
             /\ timelineStages[n].title = "Document Verification"
          THEN [timelineStages[n] EXCEPT !.status = "current"]
          ELSE timelineStages[n]]
  /\ Respond(s, 200)
  /\ UNCHANGED <<applications, documents, evaluatorAssignments, evaluations, calls>>

SubmitAdvanceScrutiny(s) ==
  /\ reqs[s].kind = "submit" /\ reqs[s].pc = "advanceScrutiny"
  /\ timelineStages' =
       [n \in 1..Len(timelineStages) |->
          IF /\ timelineStages[n].applicationId = reqs[s].application
             /\ timelineStages[n].title = "Initial Scrutiny"
          THEN [timelineStages[n] EXCEPT !.status = "current"]
          ELSE timelineStages[n]]
  /\ Respond(s, 200)
  /\ UNCHANGED <<applications, documents, evaluatorAssignments, evaluations, calls>>

\* ----------------------------- PUT /api/admin/applications/:id/status
StartSetStatus(s, k) ==
  /\ Arrive(s, k, "setStatus", MaxSetStatus)
  /\ \E n \in NumberInputs, st \in Statuses :
       reqs' = [reqs EXCEPT ![s] =
                  [Idle EXCEPT !.kind = "setStatus", !.pc = "findApplication",
                               !.user = "u_admin", !.number = n, !.status = st]]

SetStatusFindApplication(s) ==
  /\ reqs[s].kind = "setStatus" /\ reqs[s].pc = "findApplication"
  /\ LET application == findByNumber(reqs[s].number)
     IN IF application = NULL
        THEN Respond(s, 404)
        ELSE Goto(s, [reqs[s] EXCEPT !.pc = "updateApplication",
                                     !.application = application,
                                     !.read = applications[application].status])
  /\ UNCHANGED <<db, calls>>

\* a variant that follows the transition table: an application in a
\* terminal status is not moved
SetStatusUpdateApplication_Guarded(s) ==
  /\ reqs[s].kind = "setStatus" /\ reqs[s].pc = "updateApplication"
  /\ IF applications[reqs[s].application].status \in {"approved", "rejected"}
     THEN UNCHANGED applications /\ Respond(s, 400)
     ELSE /\ applications' = [applications EXCEPT ![reqs[s].application] =
                                [@ EXCEPT !.status = reqs[s].status]]
          /\ Respond(s, 200)
  /\ UNCHANGED <<documents, timelineStages, evaluatorAssignments, evaluations, calls>>

SetStatusUpdateApplication(s) ==
  /\ reqs[s].kind = "setStatus" /\ reqs[s].pc = "updateApplication"
  /\ applications' = [applications EXCEPT ![reqs[s].application] =
                        [@ EXCEPT !.status = reqs[s].status]]
  /\ Respond(s, 200)
  /\ UNCHANGED <<documents, timelineStages, evaluatorAssignments, evaluations, calls>>

\* --------------------------------- POST /api/admin/assign-evaluator
StartAssign(s, k) ==
  /\ Arrive(s, k, "assign", MaxAssigns)
  /\ \E a \in ApplicationIdInputs, e \in EvaluatorUsers :
       reqs' = [reqs EXCEPT ![s] =
                  [Idle EXCEPT !.kind = "assign", !.pc = "insertAssignment",
                               !.user = "u_admin", !.applicationId = a,
                               !.evaluatorId = e]]

\* The tables are declared in shared/schema, which is not part of the
\* sources at hand: an insert whose applicationId or assignmentId matches no
\* row either violates a foreign key (the handler catches the error and
\* answers 500) or, without the constraint, inserts the row.
\* a variant that reuses an open assignment of the same evaluator and
\* application instead of inserting a row
AssignInsertAssignment_Upsert(s) ==
  /\ reqs[s].kind = "assign" /\ reqs[s].pc = "insertAssignment"
  /\ LET open == {g \in 1..Len(evaluatorAssignments) :
                    /\ evaluatorAssignments[g].applicationId = reqs[s].applicationId
                    /\ evaluatorAssignments[g].evaluatorId = reqs[s].evaluatorId
                    /\ evaluatorAssignments[g].completedAt = NULL}
     IN \/ /\ open = {}
           /\ evaluatorAssignments' = Append(evaluatorAssignments,
                [applicationId |-> reqs[s].applicationId,
                 evaluatorId |-> reqs[s].evaluatorId,
                 completedAt |-> NULL])
           /\ Goto(s, [reqs[s] EXCEPT !.pc = "updateApplication",
                                      !.assignment = Len(evaluatorAssignments) + 1])
        \/ /\ open # {}
           /\ UNCHANGED evaluatorAssignments
           /\ Goto(s, [reqs[s] EXCEPT !.pc = "updateApplication",
                                      !.assignment = CHOOSE g \in open : TRUE])
        \/ /\ reqs[s].applicationId \notin 1..Len(applications)
           /\ UNCHANGED evaluatorAssignments
           /\ Respond(s, 500)
  /\ UNCHANGED <<applications, documents, timelineStages, evaluations, calls>>

AssignInsertAssignment(s) ==
  /\ reqs[s].kind = "assign" /\ reqs[s].pc = "insertAssignment"
  /\ \/ /\ evaluatorAssignments' = Append(evaluatorAssignments,
             [applicationId |-> reqs[s].applicationId,
              evaluatorId |-> reqs[s].evaluatorId,
              completedAt |-> NULL])
        /\ Goto(s, [reqs[s] EXCEPT !.pc = "updateApplication",
                                   !.assignment = Len(evaluatorAssignments) + 1])
     \/ /\ reqs[s].applicationId \notin 1..Len(applications)
        /\ UNCHANGED evaluatorAssignments
        /\ Respond(s, 500)
  /\ UNCHANGED <<applications, documents, timelineStages, evaluations, calls>>

AssignUpdateApplication(s) ==
  /\ reqs[s].kind = "assign" /\ reqs[s].pc = "updateApplication"
  /\ applications' =
       [a \in 1..Len(applications) |->
          IF a = reqs[s].applicationId
          THEN [applications[a] EXCEPT !.status = "under_evaluation"]
          ELSE applications[a]]
  /\ Respond(s, 200)
  /\ UNCHANGED <<documents, timelineStages, evaluatorAssignments, evaluations, calls>>

\* --------------------------------------------- POST /api/evaluations
StartRecord(s, k) ==
  /\ Arrive(s, k, "record", MaxRecords)
  /\ \E u \in EvaluatorUsers, g \in AssignmentIdInputs,
        a \in ApplicationIdInputs, r \in Recommendations :
       reqs' = [reqs EXCEPT ![s] =
                  [Idle EXCEPT !.kind = "record", !.pc = "insertEvaluation",
                               !.user = u, !.assignmentId = g,
                               !.applicationId = a, !.recommendation = r]]

\* a variant that closes every assignment of the same evaluator and
\* application as soon as the evaluation is inserted
RecordInsertEvaluation_ClosesPair(s) ==
  /\ reqs[s].kind = "record" /\ reqs[s].pc = "insertEvaluation"
  /\ \/ /\ evaluations' = Append(evaluations,
             [assignmentId |-> reqs[s].assignmentId,
              applicationId |-> reqs[s].applicationId,
              evaluatorId |-> reqs[s].user,
              recommendation |-> reqs[s].recommendation])
        /\ evaluatorAssignments' =
             [g \in 1..Len(evaluatorAssignments) |->
                IF /\ evaluatorAssignments[g].applicationId = reqs[s].applicationId
                   /\ evaluatorAssignments[g].evaluatorId = reqs[s].user
                THEN [evaluatorAssignments[g] EXCEPT !.completedAt = Now]
                ELSE evaluatorAssignments[g]]
        /\ Goto(s, [reqs[s] EXCEPT !.pc = "completeAssignment",
                                   !.evaluation = Len(evaluations) + 1])
     \/ /\ \/ reqs[s].assignmentId \notin 1..Len(evaluatorAssignments)
           \/ reqs[s].applicationId \notin 1..Len(applications)
        /\ UNCHANGED <<evaluations, evaluatorAssignments>>
        /\ Respond(s, 500)
  /\ UNCHANGED <<applications, documents, timelineStages, calls>>

RecordInsertEvaluation(s) ==
  /\ reqs[s].kind = "record" /\ reqs[s].pc = "insertEvaluation"
  /\ \/ /\ evaluations' = Append(evaluations,
             [assignmentId |-> reqs[s].assignmentId,
              applicationId |-> reqs[s].applicationId,
              evaluatorId |-> reqs[s].user,
              recommendation |-> reqs[s].recommendation])
        /\ Goto(s, [reqs[s] EXCEPT !.pc = "completeAssignment",
                                   !.evaluation = Len(evaluations) + 1])
     \/ /\ \/ reqs[s].assignmentId \notin 1..Len(evaluatorAssignments)
           \/ reqs[s].applicationId \notin 1..Len(applications)
        /\ UNCHANGED evaluations
        /\ Respond(s, 500)
  /\ UNCHANGED <<applications, documents, timelineStages, evaluatorAssignments, calls>>

\* a variant whose where clause compares the assignment id with the
\* application id of the body
RecordCompleteAssignment_WrongKey(s) ==
  /\ reqs[s].kind = "record" /\ reqs[s].pc = "completeAssignment"
  /\ evaluatorAssignments' =
       [g \in 1..Len(evaluatorAssignments) |->
          IF g = reqs[s].applicationId
          THEN [evaluatorAssignments[g] EXCEPT !.completedAt = Now]
          ELSE evaluatorAssignments[g]]
  /\ Respond(s, 200)
  /\ UNCHANGED <<applications, documents, timelineStages, evaluations, calls>>

RecordCompleteAssignment(s) ==
  /\ reqs[s].kind = "record" /\ reqs[s].pc = "completeAssignment"
  /\ evaluatorAssignments' =
       [g \in 1..Len(evaluatorAssignments) |->
          IF g = reqs[s].assignmentId
          THEN [evaluatorAssignments[g] EXCEPT !.completedAt = Now]
          ELSE evaluatorAssignments[g]]
  /\ Respond(s, 200)
  /\ UNCHANGED <<applications, documents, timelineStages, evaluations, calls>>

\* --------------------------------------------------------- specifications
Step(s) ==
  \/ CreateFindInstitution(s) \/ CreateInsertApplication(s) \/ CreateInsertStages(s)
  \/ SeedFindExisting(s) \/ SeedInsertApplication(s) \/ SeedInsertDocument(s)
  \/ SeedInsertAssignment(s) \/ SeedInsertEvaluation(s) \/ SeedInsertStage(s)
  \/ SubmitFindApplication(s) \/ SubmitUpdateApplication(s)
  \/ SubmitCompleteSubmitted(s) \/ SubmitAdvanceScrutiny(s)
  \/ SetStatusFindApplication(s) \/ SetStatusUpdateApplication(s)
  \/ AssignInsertAssignment(s) \/ AssignUpdateApplication(s)
  \/ RecordInsertEvaluation(s) \/ RecordCompleteAssignment(s)

Start(s, k) ==
  \/ StartSeed(s, k) \/ StartCreate(s, k) \/ StartSubmit(s, k)
  \/ StartSetStatus(s, k) \/ StartAssign(s, k) \/ StartRecord(s, k)

\* one call at a time: a call arrives when no handler is in flight
Next == \E s \in Slots : Start(s, 1) \/ Step(s)

Spec == Init /\ [][Next]_vars

\* calls of the routes arrive while other handlers are between two awaits;
\* the seed script is run before the server is started, not beside it
StepConcurrent(s) ==
  \/ CreateFindInstitution(s) \/ CreateInsertApplication(s) \/ CreateInsertStages(s)
  \/ SubmitFindApplication(s) \/ SubmitUpdateApplication(s)
  \/ SubmitCompleteSubmitted(s) \/ SubmitAdvanceScrutiny(s)
  \/ SetStatusFindApplication(s) \/ SetStatusUpdateApplication(s)
  \/ AssignInsertAssignment(s) \/ AssignUpdateApplication(s)
  \/ RecordInsertEvaluation(s) \/ RecordCompleteAssignment(s)

StartConcurrent(s) ==
  \/ StartCreate(s, MaxInFlight) \/ StartSubmit(s, MaxInFlight)
  \/ StartSetStatus(s, MaxInFlight) \/ StartAssign(s, MaxInFlight)
  \/ StartRecord(s, MaxInFlight)

NextConcurrent == \E s \in Slots : StartConcurrent(s) \/ StepConcurrent(s)

SpecConcurrent == Init /\ [][NextConcurrent]_vars

\* runs of the seed script, createApplication and repeated status overrides,
\* which may also address a sample application that is already approved
OverrideNumberInputs == NumberInputs \cup {"AICTE/2025/004"}

StartOverride(s, k) ==
  /\ Arrive(s, k, "setStatus", MaxOverrides)
  /\ \E n \in OverrideNumberInputs, st \in Statuses :
       reqs' = [reqs EXCEPT ![s] =
                  [Idle EXCEPT !.kind = "setStatus", !.pc = "findApplication",
                               !.user = "u_admin", !.number = n, !.status = st]]

StepOverride(s) ==
  \/ CreateFindInstitution(s) \/ CreateInsertApplication(s) \/ CreateInsertStages(s)
  \/ SeedFindExisting(s) \/ SeedInsertApplication(s) \/ SeedInsertDocument(s)
  \/ SeedInsertAssignment(s) \/ SeedInsertEvaluation(s) \/ SeedInsertStage(s)
  \/ SetStatusFindApplication(s) \/ SetStatusUpdateApplication(s)

NextOverride ==
  \E s \in Slots : StartSeed(s, 1) \/ StartCreate(s, 1) \/ StartOverride(s, 1)
                     \/ StepOverride(s)

SpecOverride == Init /\ [][NextOverride]_vars

\* ------------------------------------------ GET /api/applications/tracker
DocumentStatuses == {"pending", "approved", "rejected"}

\* findMany ordered by desc(createdAt): the ids of the applications that
\* are in the set where, the latest first
findManyApplications(where) ==
  LET Take[n \in 0..Len(applications)] ==
        IF n = 0 THEN << >>
        ELSE IF n \in where THEN <<n>> \o Take[n - 1] ELSE Take[n - 1]
  IN Take[Len(applications)]

\* db.query.documents.findMany of an application
appDocuments(a) == SelectSeq(documents, LAMBDA doc : doc.applicationId = a)

\* a variant that reports the share of approved documents
evaluationProgress_ApprovedOnly(approvedDocs, rejectedDocs, totalDocs) ==
  IF totalDocs > 0
  THEN (2 * 100 * approvedDocs + totalDocs) \div (2 * totalDocs)
  ELSE 0

\* Math.round(((approvedDocs + rejectedDocs) / totalDocs) * 100), which up to
\* 39 documents is the exact quotient rounded to the nearest integer
evaluationProgress(approvedDocs, rejectedDocs, totalDocs) ==
  IF totalDocs > 0
  THEN (2 * 100 * (approvedDocs + rejectedDocs) + totalDocs) \div (2 * totalDocs)
  ELSE 0

\* the entry of the tracker for application a
applicationWithDetails(a) ==
  LET docs == appDocuments(a)
      approvedDocs == Len(SelectSeq(docs, LAMBDA doc : doc.status = "approved"))
      rejectedDocs == Len(SelectSeq(docs, LAMBDA doc : doc.status = "rejected"))
      pendingDocs == Len(SelectSeq(docs, LAMBDA doc : doc.status = "pending"))
      totalDocs == Len(docs)
  IN [id |-> a, approvedDocs |-> approvedDocs, rejectedDocs |-> rejectedDocs,
      pendingDocs |-> pendingDocs,
      evaluationProgress |-> evaluationProgress(approvedDocs, rejectedDocs, totalDocs)]

TrackerUsers == {"u_inst", "u_admin"}

StartTracker(s) ==
  /\ InFlight = {} /\ s = 1
  /\ \E u \in TrackerUsers :
       reqs' = [reqs EXCEPT ![s] =
                  [Idle EXCEPT !.kind = "tracker", !.pc = "findApplications",
                               !.user = u]]
  /\ response' = NoResponse
  /\ UNCHANGED <<db, calls>>

TrackerFindApplications(s) ==
  /\ reqs[s].kind = "tracker" /\ reqs[s].pc = "findApplications"
  /\ LET mine == {a \in 1..Len(applications) :
                    applications[a].institutionId = InstitutionOf(reqs[s].user)}
         every == 1..Len(applications)
     IN Goto(s, [reqs[s] EXCEPT
                   !.pc = "findDocuments",
                   !.allApplications =
                      IF reqs[s].user \in InstitutionUsers
                      THEN findManyApplications(mine)
                      ELSE findManyApplications(every)])
  /\ UNCHANGED <<db, calls>>

TrackerFindDocuments(s) ==
  /\ reqs[s].kind = "tracker" /\ reqs[s].pc = "findDocuments"
  /\ reqs' = [reqs EXCEPT ![s] = Idle]
  /\ response' = [code |-> 200,
                  req |-> [reqs[s] EXCEPT !.result =
                             [n \in 1..Len(reqs[s].allApplications) |->
                                applicationWithDetails(reqs[s].allApplications[n])]]]
  /\ UNCHANGED <<db, calls>>

\* two applications of two institutions and any documents for them
InitTracker ==
  /\ applications =
       << [applicationNumber |-> "AICTE/2025/001", institutionId |-> "u_inst",
           status |-> "under_evaluation", submittedAt |-> PastDate],
          [applicationNumber |-> appNumber(1), institutionId |-> "u_inst2",
           status |-> "draft", submittedAt |-> NULL] >>
  /\ documents \in UNION {[1..k -> [applicationId : {1, 2},
                                    category : {"Building Plan"},
                                    status : DocumentStatuses]] : k \in 0..MaxDocs}
  /\ timelineStages = << >>
  /\ evaluatorAssignments = << >>
  /\ evaluations = << >>
  /\ reqs = [s \in Slots |-> Idle]
  /\ response = NoResponse
  /\ calls = [seed |-> 0, create |-> 0, submit |-> 0, setStatus |-> 0,
              assign |-> 0, record |-> 0]

NextTracker ==
  \E s \in Slots : StartTracker(s) \/ TrackerFindApplications(s)
                     \/ TrackerFindDocuments(s)

SpecTracker == InitTracker /\ [][NextTracker]_vars

\* calls by a second institution and a second evaluator: users of the right
\* role, which requireRole lets through, who do not own what they address
OtherInstitutionUsers == {"u_inst2"}
OtherEvaluatorUsers == {"u_eval2"}

StartSubmitOther(s, k) ==
  /\ Arrive(s, k, "submit", MaxSubmits)
  /\ \E u \in OtherInstitutionUsers, n \in NumberInputs :
       reqs' = [reqs EXCEPT ![s] =
                  [Idle EXCEPT !.kind = "submit", !.pc = "findApplication",
                               !.user = u, !.number = n]]

StartRecordOther(s, k) ==
  /\ Arrive(s, k, "record", MaxRecords)
  /\ \E u \in OtherEvaluatorUsers, g \in AssignmentIdInputs,
        a \in ApplicationIdInputs, r \in Recommendations :
       reqs' = [reqs EXCEPT ![s] =
                  [Idle EXCEPT !.kind = "record", !.pc = "insertEvaluation",
                               !.user = u, !.assignmentId = g,
                               !.applicationId = a, !.recommendation = r]]

StepCallers(s) ==
  \/ CreateFindInstitution(s) \/ CreateInsertApplication(s) \/ CreateInsertStages(s)
  \/ SubmitFindApplication(s) \/ SubmitUpdateApplication(s)
  \/ SubmitCompleteSubmitted(s) \/ SubmitAdvanceScrutiny(s)
  \/ AssignInsertAssignment(s) \/ AssignUpdateApplication(s)
  \/ RecordInsertEvaluation(s) \/ RecordCompleteAssignment(s)

NextCallers ==
  \E s \in Slots :
    \/ StartCreate(s, 1) \/ StartAssign(s, 1)
    \/ StartSubmit(s, 1) \/ StartSubmitOther(s, 1)
    \/ StartRecord(s, 1) \/ StartRecordOther(s, 1)
    \/ StepCallers(s)

SpecCallers == Init /\ [][NextCallers]_vars

\* the seed script and the calls of the guided flow, one at a time, without
\* the admin override
StepGuided(s) ==
  \/ CreateFindInstitution(s) \/ CreateInsertApplication(s) \/ CreateInsertStages(s)
  \/ SeedFindExisting(s) \/ SeedInsertApplication(s) \/ SeedInsertDocument(s)
  \/ SeedInsertAssignment(s) \/ SeedInsertEvaluation(s) \/ SeedInsertStage(s)
  \/ SubmitFindApplication(s) \/ SubmitUpdateApplication(s)
  \/ SubmitCompleteSubmitted(s) \/ SubmitAdvanceScrutiny(s)
  \/ AssignInsertAssignment(s) \/ AssignUpdateApplication(s)
  \/ RecordInsertEvaluation(s) \/ RecordCompleteAssignment(s)

NextGuided ==
  \E s \in Slots :
    \/ StartSeed(s, 1) \/ StartCreate(s, 1) \/ StartSubmit(s, 1)
    \/ StartAssign(s, 1) \/ StartRecord(s, 1)
    \/ StepGuided(s)

SpecGuided == Init /\ [][NextGuided]_vars

\* ------------------------------------------------ GET /api/admin/alerts
StartAlerts(s) ==
  /\ InFlight = {} /\ s = 1
  /\ reqs' = [reqs EXCEPT ![s] =
                [Idle EXCEPT !.kind = "alerts", !.pc = "countUnassigned",
                             !.user = "u_admin"]]
  /\ response' = NoResponse
  /\ UNCHANGED <<db, calls>>

\* a variant that looks for an open assignment only
unassignedApps_OpenOnly ==
  Cardinality({a \in 1..Len(applications) :
                 /\ applications[a].status = "under_evaluation"
                 /\ ~ \E g \in 1..Len(evaluatorAssignments) :
                        /\ evaluatorAssignments[g].applicationId = a
                        /\ evaluatorAssignments[g].completedAt = NULL})

\* count of the applications under evaluation for which NOT EXISTS an assignment
unassignedApps ==
  Cardinality({a \in 1..Len(applications) :
                 /\ applications[a].status = "under_evaluation"
                 /\ ~ \E g \in 1..Len(evaluatorAssignments) :
                        evaluatorAssignments[g].applicationId = a})

\* count of the applications with status 'submitted'
pendingReview ==
  Cardinality({a \in 1..Len(applications) : applications[a].status = "submitted"})

AlertsCountUnassigned(s) ==
  /\ reqs[s].kind = "alerts" /\ reqs[s].pc = "countUnassigned"
  /\ Goto(s, [reqs[s] EXCEPT
               !.pc = "countUpcoming",
               !.result = IF unassignedApps > 0
                          THEN Append(@, [action |-> "Assign Evaluators",
                                          count |-> unassignedApps])
                          ELSE @])
  /\ UNCHANGED <<db, calls>>

\* the two counts of open assignments by deadline: the deadline of an
\* assignment is not part of the state, so that an open assignment may or may
\* not be counted
AlertsCountUpcoming(s) ==
  /\ reqs[s].kind = "alerts" /\ reqs[s].pc = "countUpcoming"
  /\ \E due \in {n \in 0..1 : n = 0 \/ \E g \in 1..Len(evaluatorAssignments) :
                                        evaluatorAssignments[g].completedAt = NULL} :
       Goto(s, [reqs[s] EXCEPT
                  !.pc = "countNearing",
                  !.result = IF due > 0
                             THEN Append(@, [action |-> "View Schedule", count |-> due])
                             ELSE @])
  /\ UNCHANGED <<db, calls>>

AlertsCountNearing(s) ==
  /\ reqs[s].kind = "alerts" /\ reqs[s].pc = "countNearing"
  /\ \E due \in {n \in 0..1 : n = 0 \/ \E g \in 1..Len(evaluatorAssignments) :
                                        evaluatorAssignments[g].completedAt = NULL} :
       Goto(s, [reqs[s] EXCEPT
                  !.pc = "countPendingReview",
                  !.result = IF due > 0
                             THEN Append(@, [action |-> "Review", count |-> due])
                             ELSE @])
  /\ UNCHANGED <<db, calls>>

AlertsCountPendingReview(s) ==
  /\ reqs[s].kind = "alerts" /\ reqs[s].pc = "countPendingReview"
  /\ reqs' = [reqs EXCEPT ![s] = Idle]
  /\ response' =
       [code |-> 200,
        req |-> [reqs[s] EXCEPT
                   !.result = IF pendingReview > 0
                              THEN Append(@, [action |-> "Review",
                                              count |-> pendingReview])
                              ELSE @]]
  /\ UNCHANGED <<db, calls>>

\* the calls of the guided flow, one at a time, and the admin's alerts
StepAlerts(s) ==
  \/ CreateFindInstitution(s) \/ CreateInsertApplication(s) \/ CreateInsertStages(s)
  \/ SubmitFindApplication(s) \/ SubmitUpdateApplication(s)
  \/ SubmitCompleteSubmitted(s) \/ SubmitAdvanceScrutiny(s)
  \/ AssignInsertAssignment(s) \/ AssignUpdateApplication(s)
  \/ RecordInsertEvaluation(s) \/ RecordCompleteAssignment(s)
  \/ AlertsCountUnassigned(s) \/ AlertsCountUpcoming(s)
  \/ AlertsCountNearing(s) \/ AlertsCountPendingReview(s)

NextAlerts ==
  \E s \in Slots :
    \/ StartCreate(s, 1) \/ StartSubmit(s, 1) \/ StartAssign(s, 1)
    \/ StartRecord(s, 1) \/ StartAlerts(s)
    \/ StepAlerts(s)

SpecAlerts == Init /\ [][NextAlerts]_vars

\* ------------------------------------------------------------ properties
\* the handler in slot s takes this step
Steps(s) == reqs'[s] # reqs[s]

\* the rows of timelineStages of application a
StageRows(a) == {n \in 1..Len(timelineStages) : timelineStages[n].applicationId = a}

\* the timeline of application a, in insertion order
Timeline(a) ==
  LET Take[n \in 0..Len(timelineStages)] ==
        IF n = 0 THEN << >>
        ELSE IF timelineStages[n].applicationId = a
             THEN Append(Take[n - 1], timelineStages[n])
             ELSE Take[n - 1]
  IN Take[Len(timelineStages)]

\* the error responses of the taxonomy
NotFound(code) == code = 404
InvalidState(code) == code \notin {0, 200, 400, 403, 404, 500}

\* C1: every application has at most one timeline stage with status
\* 'current', in every state, the states between two writes of a call included.
C1_AtMostOneCurrent ==
  \A a \in 1..Len(applications) :
    Cardinality({n \in StageRows(a) : timelineStages[n].status = "current"}) <= 1

\* C2: a submit call that found the application in status 'draft' ends
\* successfully with status 'submitted', submittedAt set, the first stage
\* ('Application Submitted') completed and the second ('Initial Scrutiny') current.
C2_SubmitDraft ==
  (response.req.kind = "submit" /\ response.req.read = "draft") =>
    LET a == response.req.application
    IN /\ response.code = 200
       /\ applications[a].status = "submitted"
       /\ applications[a].submittedAt # NULL
       /\ Len(Timeline(a)) >= 2
       /\ Timeline(a)[1].title = "Application Submitted"
       /\ Timeline(a)[1].status = "completed"
       /\ Timeline(a)[2].title = "Initial Scrutiny"
       /\ Timeline(a)[2].status = "current"

C2_Witness ==
  /\ response.req.kind = "submit" /\ response.req.read = "draft"
  /\ response.code = 200
  /\ Len(Timeline(response.req.application)) >= 2

\* the handler of a submit call for an existing application whose status is
\* not 'draft' takes a step
SubmitStepOnNonDraft(s) ==
  /\ reqs[s].kind = "submit" /\ Steps(s)
  /\ IF reqs[s].pc = "findApplication"
     THEN /\ findByNumber(reqs[s].number) # NULL
          /\ applications[findByNumber(reqs[s].number)].status # "draft"
     ELSE reqs[s].read # "draft"

\* C3: submit on an application whose status is not 'draft' (a second submit
\* in particular) fails with InvalidState and leaves the application and its
\* timeline stages unchanged.
C3_SubmitNonDraftFails ==
  [][\A s \in Slots :
       SubmitStepOnNonDraft(s) =>
         /\ InvalidState(response'.code)
         /\ UNCHANGED <<applications, timelineStages>>]_vars

\* C4: submit with an application number that matches no application fails
\* with NotFound and changes no application and no timeline stage.
C4_SubmitNotFound ==
  [][\A s \in Slots :
       (/\ reqs[s].kind = "submit" /\ reqs[s].pc = "findApplication" /\ Steps(s)
        /\ findByNumber(reqs[s].number) = NULL) =>
         /\ reqs'[s] = Idle
         /\ response'.req = reqs[s]
         /\ NotFound(response'.code)
         /\ UNCHANGED <<applications, timelineStages>>]_vars

C4_Witness ==
  /\ response.req.kind = "submit" /\ response.code = 404
  /\ findByNumber(response.req.number) = NULL
  /\ Len(applications) > 0 /\ Len(timelineStages) > 0

\* the last step of a recordEvaluation call with recommendation rec on an
\* existing assignment whose application x has status 'under_evaluation'
RecordEnds(s, rec, x) ==
  /\ reqs[s].kind = "record" /\ reqs[s].pc = "completeAssignment" /\ Steps(s)
  /\ reqs[s].recommendation = rec
  /\ reqs[s].assignmentId \in 1..Len(evaluatorAssignments)
  /\ x = evaluatorAssignments[reqs[s].assignmentId].applicationId
  /\ x \in 1..Len(applications)
  /\ applications[x].status = "under_evaluation"

\* C5: recordEvaluation with recommendation 'Approve' on an assignment of an
\* application X in status 'under_evaluation' results in X.status = 'approved'
\* and every timeline stage of X completed.
C5_ApproveApproves ==
  [][\A s \in Slots, x \in 1..Len(applications) :
       RecordEnds(s, "Approve", x) =>
         /\ applications'[x].status = "approved"
         /\ \A n \in 1..Len(timelineStages') :
              timelineStages'[n].applicationId = x =>
                timelineStages'[n].status = "completed"]_vars

\* C6: recordEvaluation with recommendation 'Reject' on an assignment of an
\* application in status 'under_evaluation' moves the application to
\* 'rejected', marks the assignment completed and the remaining stages completed.
C6_RejectRejects ==
  [][\A s \in Slots, x \in 1..Len(applications) :
       RecordEnds(s, "Reject", x) =>
         /\ applications'[x].status = "rejected"
         /\ evaluatorAssignments'[reqs[s].assignmentId].completedAt # NULL
         /\ \A n \in 1..Len(timelineStages') :
              timelineStages'[n].applicationId = x =>
                timelineStages'[n].status = "completed"]_vars

\* C7: a successful recordEvaluation on an existing assignment adds exactly
\* one evaluation row, which references the assignment, and leaves the
\* assignment with a completion timestamp, whatever the recommendation.
C7_RecordCompletes ==
  [][\A s \in Slots :
       (/\ reqs[s].kind = "record" /\ Steps(s)
        /\ reqs[s].assignmentId \in 1..Len(evaluatorAssignments)) =>
         IF reqs[s].pc = "insertEvaluation"
         THEN \/ response'.code = 500 /\ UNCHANGED evaluations
              \/ /\ Len(evaluations') = Len(evaluations) + 1
                 /\ SubSeq(evaluations', 1, Len(evaluations)) = evaluations
                 /\ evaluations'[Len(evaluations')].assignmentId = reqs[s].assignmentId
                 /\ reqs'[s].evaluation = Len(evaluations')
         ELSE /\ response'.code = 200
              /\ UNCHANGED evaluations
              /\ evaluations[reqs[s].evaluation].assignmentId = reqs[s].assignmentId
              /\ evaluatorAssignments'[reqs[s].assignmentId].completedAt # NULL]_vars

C7_Witness ==
  /\ response.req.kind = "record" /\ response.code = 200
  /\ response.req.assignmentId \in 1..Len(evaluatorAssignments)
  /\ evaluatorAssignments[response.req.assignmentId].completedAt # NULL
  /\ response.req.recommendation = "Reject"

\* C8: recordEvaluation with an assignmentId that matches no assignment fails
\* with NotFound, creates no evaluation row and changes no assignment and no
\* application.
C8_RecordNotFound ==
  [][\A s \in Slots :
       (/\ reqs[s].kind = "record" /\ Steps(s)
        /\ reqs[s].assignmentId \notin 1..Len(evaluatorAssignments)) =>
         /\ NotFound(response'.code)
         /\ UNCHANGED <<evaluations, evaluatorAssignments, applications>>]_vars

\* C9: assignEvaluator with an applicationId that matches no application
\* fails with NotFound, creates no assignment row and changes no application.
C9_AssignNotFound ==
  [][\A s \in Slots :
       (/\ reqs[s].kind = "assign" /\ Steps(s)
        /\ reqs[s].applicationId \notin 1..Len(applications)) =>
         /\ NotFound(response'.code)
         /\ UNCHANGED <<evaluatorAssignments, applications>>]_vars

\* C10: a successful assignEvaluator call inserts exactly one assignment row,
\* with a null completion timestamp, also when an open assignment of the same
\* evaluator and application exists, and leaves the other rows unchanged.
C10_AssignInserts ==
  [][\A s \in Slots :
       (reqs[s].kind = "assign" /\ Steps(s)) =>
         IF reqs[s].pc = "insertAssignment"
         THEN \/ response'.code = 500 /\ UNCHANGED evaluatorAssignments
              \/ evaluatorAssignments' = Append(evaluatorAssignments,
                   [applicationId |-> reqs[s].applicationId,
                    evaluatorId |-> reqs[s].evaluatorId,
                    completedAt |-> NULL])
         ELSE /\ response'.code = 200
              /\ UNCHANGED evaluatorAssignments]_vars

C10_Witness ==
  /\ response.req.kind = "assign" /\ response.code = 200
  /\ \E g \in 1..Len(evaluatorAssignments) :
       /\ g # response.req.assignment
       /\ evaluatorAssignments[g].applicationId = response.req.applicationId
       /\ evaluatorAssignments[g].evaluatorId = response.req.evaluatorId
       /\ evaluatorAssignments[g].completedAt = NULL
       /\ evaluatorAssignments[response.req.assignment] = evaluatorAssignments[g]

\* C11: setStatus on an existing application succeeds whatever the current
\* and the new status are, terminal statuses included; afterwards the status
\* is the new one and the application's submittedAt, every other application,
\* and all timeline stages, assignments and evaluations are unchanged.
C11_OverrideUnchecked ==
  [][\A s \in Slots :
       (/\ reqs[s].kind = "setStatus" /\ Steps(s)
        /\ \/ reqs[s].pc = "updateApplication"
           \/ findByNumber(reqs[s].number) # NULL) =>
         IF reqs[s].pc = "findApplication"
         THEN /\ reqs'[s].pc = "updateApplication"
              /\ reqs'[s].application = findByNumber(reqs[s].number)
              /\ UNCHANGED db
         ELSE /\ response'.code = 200
              /\ Len(applications') = Len(applications)
              /\ \A a \in 1..Len(applications) :
                   IF a = reqs[s].application
                   THEN applications'[a] =
                          [applications[a] EXCEPT !.status = reqs[s].status]
                   ELSE applications'[a] = applications[a]
              /\ UNCHANGED <<timelineStages, evaluatorAssignments, evaluations,
                             documents>>]_vars

C11_Witness ==
  /\ response.req.kind = "setStatus" /\ response.code = 200
  /\ response.req.read = "approved" /\ response.req.status = "scrutiny"
  /\ applications[response.req.application].status = "scrutiny"
  /\ applications[response.req.application].submittedAt # NULL
  /\ \E g \in 1..Len(evaluatorAssignments) :
       evaluatorAssignments[g].applicationId = response.req.application

\* the documents of application a that have status st
DocsIn(a, st) ==
  {n \in 1..Len(documents) :
     documents[n].applicationId = a /\ documents[n].status = st}

\* p is 100 * num / den rounded to the nearest integer, a half rounded up
Rounded(p, num, den) ==
  /\ 2 * (100 * num - p * den) <= den
  /\ 2 * (100 * num - p * den) > 0 - den

\* C12: the tracker reports, for every application the caller sees, the
\* numbers of its approved, rejected and pending documents, and a progress
\* that is 0 without documents and else 100 * (approved + rejected) / total
\* rounded to the nearest integer.
C12_TrackerProgress ==
  (response.req.kind = "tracker") =>
    /\ response.code = 200
    /\ {response.req.result[n].id : n \in 1..Len(response.req.result)} =
         {a \in 1..Len(applications) :
            \/ response.req.user \notin InstitutionUsers
            \/ applications[a].institutionId = InstitutionOf(response.req.user)}
    /\ \A n \in 1..Len(response.req.result) :
         LET e == response.req.result[n]
             reviewed == Cardinality(DocsIn(e.id, "approved"))
                           + Cardinality(DocsIn(e.id, "rejected"))
             total == reviewed + Cardinality(DocsIn(e.id, "pending"))
         IN /\ e.approvedDocs = Cardinality(DocsIn(e.id, "approved"))
            /\ e.rejectedDocs = Cardinality(DocsIn(e.id, "rejected"))
            /\ e.pendingDocs = Cardinality(DocsIn(e.id, "pending"))
            /\ IF total = 0 THEN e.evaluationProgress = 0
               ELSE Rounded(e.evaluationProgress, reviewed, total)

\* three approved, one rejected and one pending document give 80, 3, 1, 1
C12_Witness ==
  /\ response.req.kind = "tracker" /\ response.code = 200
  /\ \E n \in 1..Len(response.req.result) :
       /\ Cardinality(DocsIn(response.req.result[n].id, "approved")) = 3
       /\ Cardinality(DocsIn(response.req.result[n].id, "rejected")) = 1
       /\ Cardinality(DocsIn(response.req.result[n].id, "pending")) = 1
       /\ response.req.result[n].evaluationProgress = 80
       /\ response.req.result[n].approvedDocs = 3
       /\ response.req.result[n].rejectedDocs = 1
       /\ response.req.result[n].pendingDocs = 1

\* the rows of documents of application a
DocumentRows(a) == {n \in 1..Len(documents) : documents[n].applicationId = a}

\* C13: no step of the seed script or of a handler takes a reviewed document
\* back to 'pending' or from 'approved' to 'rejected' or back, and the
\* tracker's progress of an application whose set of documents stays the
\* same never decreases.
C13_ProgressMonotone ==
  [][\/ documents' = documents
     \/ /\ Len(documents') >= Len(documents)
        /\ \A n \in 1..Len(documents) :
             \/ documents'[n] = documents[n]
             \/ /\ documents[n].status = "pending"
                /\ documents'[n] =
                     [documents[n] EXCEPT !.status = documents'[n].status]
        /\ \A a \in 1..Len(applications) :
             (DocumentRows(a)' = DocumentRows(a)) =>
               (applicationWithDetails(a).evaluationProgress)' >=
                  applicationWithDetails(a).evaluationProgress]_vars

C13_Witness ==
  /\ response.req.kind = "submit" /\ response.code = 200
  /\ applicationWithDetails(response.req.application).evaluationProgress = 80
  /\ applicationWithDetails(response.req.application).pendingDocs = 1

\* the assignments other than g that have the application and the evaluator
\* of assignment g
Twins(g) ==
  {h \in 1..Len(evaluatorAssignments) :
     /\ h # g
     /\ evaluatorAssignments[h].applicationId = evaluatorAssignments[g].applicationId
     /\ evaluatorAssignments[h].evaluatorId = evaluatorAssignments[g].evaluatorId}

\* C14: when two assignments exist for the same application and the same
\* evaluator, every step of a recordEvaluation call on one of them leaves the
\* other (completed or still open) unchanged; the last step sets the
\* completion timestamp of the addressed one.
C14_RecordCompletesOnlyOne ==
  [][\A s \in Slots :
       (/\ reqs[s].kind = "record" /\ Steps(s)
        /\ reqs[s].assignmentId \in 1..Len(evaluatorAssignments)) =>
         /\ Len(evaluatorAssignments') = Len(evaluatorAssignments)
         /\ \A h \in Twins(reqs[s].assignmentId) :
              evaluatorAssignments'[h] = evaluatorAssignments[h]
         /\ (reqs[s].pc = "completeAssignment") =>
              evaluatorAssignments'[reqs[s].assignmentId].completedAt = Now
         /\ (reqs[s].pc = "insertEvaluation") =>
              UNCHANGED evaluatorAssignments]_vars

C14_Witness ==
  /\ response.req.kind = "record" /\ response.code = 200
  /\ response.req.assignmentId \in 1..Len(evaluatorAssignments)
  /\ evaluatorAssignments[response.req.assignmentId].completedAt # NULL
  /\ \E h \in Twins(response.req.assignmentId) :
       evaluatorAssignments[h].completedAt = NULL

\* two recordEvaluation calls in flight for the same existing assignment with
\* different recommendations
Rivals(s, t) ==
  /\ s # t
  /\ reqs[s].kind = "record" /\ reqs[t].kind = "record"
  /\ reqs[s].assignmentId \in 1..Len(evaluatorAssignments)
  /\ reqs[s].assignmentId = reqs[t].assignmentId
  /\ reqs[s].recommendation # reqs[t].recommendation

\* C15: of the recordEvaluation calls that run concurrently on the same
\* assignment with different recommendations only one is applied: no state
\* holds the evaluation rows of two of them while neither call has ended.
C15_OneRecordCommitted ==
  \A s, t \in Slots :
    Rivals(s, t) =>
      ~ /\ reqs[s].pc = "completeAssignment"
        /\ reqs[t].pc = "completeAssignment"
        /\ evaluations[reqs[s].evaluation].recommendation = reqs[s].recommendation
        /\ evaluations[reqs[t].evaluation].recommendation = reqs[t].recommendation

\* C16: a call commits all of its writes or none: no state shows an
\* application of createApplication without timeline stages, a submitted
\* application of submit whose 'Application Submitted' stage is not completed,
\* an assignment of assignEvaluator without the status change, or an
\* evaluation of recordEvaluation whose assignment is still open.
C16_AllOrNothing ==
  \A s \in Slots :
    /\ ~ (reqs[s].kind = "create" /\ reqs[s].pc = "insertStages"
           /\ StageRows(reqs[s].application) = {})
    /\ ~ (reqs[s].kind = "submit" /\ reqs[s].pc = "completeSubmitted"
           /\ applications[reqs[s].application].status = "submitted"
           /\ \E n \in StageRows(reqs[s].application) :
                /\ timelineStages[n].title = "Application Submitted"
                /\ timelineStages[n].status = "current")
    /\ ~ (reqs[s].kind = "assign" /\ reqs[s].pc = "updateApplication"
           /\ reqs[s].applicationId \in 1..Len(applications)
           /\ applications[reqs[s].applicationId].status # "under_evaluation")
    /\ ~ (reqs[s].kind = "record" /\ reqs[s].pc = "completeAssignment"
           /\ reqs[s].assignmentId \in 1..Len(evaluatorAssignments)
           /\ evaluatorAssignments[reqs[s].assignmentId].completedAt = NULL)

\* C17: the status-mutating calls on one application exclude each other: an
\* application still has the status that a submit or setStatus handler read
\* when that handler comes to write it.
C17_NoStaleWrite ==
  \A s \in Slots :
    (reqs[s].kind \in {"submit", "setStatus"} /\ reqs[s].pc = "updateApplication") =>
      applications[reqs[s].application].status = reqs[s].read

Forbidden(code) == code = 403

\* the handler of a submit call by an institution user takes a step on an
\* existing application of another institution
SubmitStepOnForeign(s) ==
  /\ reqs[s].kind = "submit" /\ Steps(s)
  /\ LET a == IF reqs[s].pc = "findApplication"
              THEN findByNumber(reqs[s].number) ELSE reqs[s].application
     IN /\ a # NULL
        /\ applications[a].institutionId # InstitutionOf(reqs[s].user)

\* C18: submit by an institution user on an application of another
\* institution fails with Forbidden and leaves the application's status,
\* submittedAt and timeline stages unchanged.
C18_SubmitForeignForbidden ==
  [][\A s \in Slots :
       SubmitStepOnForeign(s) =>
         /\ UNCHANGED <<applications, timelineStages>>
         /\ (reqs'[s] = Idle) => Forbidden(response'.code)]_vars

\* C19: recordEvaluation by an evaluator on an assignment addressed to another
\* evaluator fails with Forbidden, creates no evaluation and leaves the
\* assignment's completion timestamp unchanged.
C19_RecordForeignForbidden ==
  [][\A s \in Slots :
       (/\ reqs[s].kind = "record" /\ Steps(s)
        /\ reqs[s].assignmentId \in 1..Len(evaluatorAssignments)
        /\ evaluatorAssignments[reqs[s].assignmentId].evaluatorId # reqs[s].user) =>
         /\ UNCHANGED <<evaluations, evaluatorAssignments>>
         /\ (reqs'[s] = Idle) => Forbidden(response'.code)]_vars

\* C20: once the status of an application is 'approved' or 'rejected', no
\* step of a submit, assignEvaluator or recordEvaluation call changes it.
C20_TerminalStays ==
  [][\A s \in Slots, a \in 1..Len(applications) :
       (/\ reqs[s].kind \in {"submit", "assign", "record"} /\ Steps(s)
        /\ applications[a].status \in {"approved", "rejected"}) =>
         applications'[a].status = applications[a].status]_vars

\* a timeline of the shape completed* (current)? pending*
Ordered(tl) ==
  /\ Cardinality({i \in 1..Len(tl) : tl[i].status = "current"}) <= 1
  /\ \A i, j \in 1..Len(tl) :
       i < j => /\ tl[j].status = "completed" => tl[i].status = "completed"
                /\ tl[i].status = "pending" => tl[j].status = "pending"

\* C21: without the admin override, the timeline of every application, in
\* insertion order, is a run of completed stages, then at most one current
\* stage, then pending stages.
C21_TimelineOrdered ==
  \A a \in 1..Len(applications) : Ordered(Timeline(a))

\* the creation of application a is complete: neither createApplication nor
\* the seed script is still writing its rows
Created(a) ==
  \A s \in Slots :
    ~ (reqs[s].kind \in {"create", "seed"} /\ reqs[s].application = a)

\* C22: an application has 5 or 6 timeline stages as soon as its creation is
\* complete, and no later step of any call or of a seed run adds or removes one.
C22_StagesFixed ==
  /\ [](\A a \in 1..Len(applications) :
          Created(a) => Cardinality(StageRows(a)) \in {5, 6})
  /\ [][\/ timelineStages' = timelineStages
        \/ \A a \in 1..Len(applications) :
             Created(a) => StageRows(a)' = StageRows(a)]_vars

C22_Witness ==
  /\ calls.seed = 2 /\ response.req.kind = "seed"
  /\ calls.submit >= 1
  /\ \E a, b \in 1..Len(applications) :
       /\ Created(a) /\ Cardinality(StageRows(a)) = 5
       /\ Created(b) /\ Cardinality(StageRows(b)) = 6
       /\ applications[b].status = "submitted"

\* C23: completing an assignment is idempotent: the last step of a
\* recordEvaluation call on an assignment that already has a completion
\* timestamp succeeds and leaves that timestamp as it was.
C23_CompleteIdempotent ==
  [][\A s \in Slots :
       (/\ reqs[s].kind = "record" /\ reqs[s].pc = "completeAssignment" /\ Steps(s)
        /\ reqs[s].assignmentId \in 1..Len(evaluatorAssignments)
        /\ evaluatorAssignments[reqs[s].assignmentId].completedAt # NULL) =>
         /\ response'.code = 200
         /\ evaluatorAssignments'[reqs[s].assignmentId].completedAt =
              evaluatorAssignments[reqs[s].assignmentId].completedAt]_vars

\* the titles of the stages that stand for the evaluation, in the timelines
\* of createApplication and of the seed script
EvaluationTitles == {"Evaluator Assignment", "Site Visit & Evaluation", "Evaluation"}

\* C24: a successful assignEvaluator on an application in status 'submitted'
\* or 'scrutiny' leaves it in status 'under_evaluation' with a stage that
\* stands for the evaluation marked 'current'.
C24_AssignAdvances ==
  [][\A s \in Slots :
       (/\ reqs[s].kind = "assign" /\ reqs[s].pc = "updateApplication" /\ Steps(s)
        /\ reqs[s].applicationId \in 1..Len(applications)
        /\ applications[reqs[s].applicationId].status \in {"submitted", "scrutiny"}) =>
         /\ response'.code = 200
         /\ applications'[reqs[s].applicationId].status = "under_evaluation"
         /\ \E n \in 1..Len(timelineStages') :
              /\ timelineStages'[n].applicationId = reqs[s].applicationId
              /\ timelineStages'[n].title \in EvaluationTitles
              /\ timelineStages'[n].status = "current"]_vars

\* C25: without the admin override, a timeline stage that is 'completed'
\* stays 'completed' in every step, for seeded applications too.
C25_CompletedStays ==
  [][\A n \in 1..Len(timelineStages) :
       timelineStages[n].status = "completed" =>
         timelineStages'[n].status = "completed"]_vars

\* C26: createApplication answers with an application in status 'draft' with
\* a null submission timestamp; as long as an application has not been
\* submitted, its first stage, 'Application Submitted', is 'current' and every
\* other stage is 'pending'.
C26_CreatedIsDraft ==
  /\ (response.req.kind = "create" /\ response.code = 200) =>
       /\ applications[response.req.application].status = "draft"
       /\ applications[response.req.application].submittedAt = NULL
       /\ StageRows(response.req.application) # {}
  /\ \A a \in 1..Len(applications) :
       (Created(a) /\ applications[a].submittedAt = NULL) =>
         \A n \in StageRows(a) :
           /\ (\A m \in StageRows(a) : n <= m) <=>
                timelineStages[n].title = "Application Submitted"
           /\ timelineStages[n].status =
                IF timelineStages[n].title = "Application Submitted"
                THEN "current" ELSE "pending"

C26_Witness ==
  /\ response.req.kind = "create" /\ response.code = 200
  /\ Cardinality(StageRows(response.req.application)) = 6
  /\ Len(applications) > 1

\* C27: in every state, the states between two writes included, an assignment
\* with a completion timestamp is referenced by at least one evaluation row.
C27_CompletedHasEvaluation ==
  \A g \in 1..Len(evaluatorAssignments) :
    evaluatorAssignments[g].completedAt # NULL =>
      \E e \in 1..Len(evaluations) : evaluations[e].assignmentId = g

\* C28: in every state, an application whose status is not 'draft' has a
\* submission timestamp.
C28_SubmittedAtSet ==
  \A a \in 1..Len(applications) :
    applications[a].status # "draft" => applications[a].submittedAt # NULL

\* C29: every evaluation row that references an existing assignment and an
\* existing application has the application and the evaluator of that
\* assignment.
C29_EvaluationMatchesAssignment ==
  \A e \in 1..Len(evaluations) :
    (/\ evaluations[e].assignmentId \in 1..Len(evaluatorAssignments)
     /\ evaluations[e].applicationId \in 1..Len(applications)
     /\ evaluatorAssignments[evaluations[e].assignmentId].applicationId
          \in 1..Len(applications)) =>
      /\ evaluations[e].applicationId =
           evaluatorAssignments[evaluations[e].assignmentId].applicationId
      /\ evaluations[e].evaluatorId =
           evaluatorAssignments[evaluations[e].assignmentId].evaluatorId

\* C30: without the admin override, every application in status
\* 'under_evaluation' has an assignment row in every state, the state between
\* the two writes of assignEvaluator included, so that the alerts never count
\* an application as pending evaluator assignment.
C30_UnderEvaluationAssigned ==
  /\ \A a \in 1..Len(applications) :
       applications[a].status = "under_evaluation" =>
         \E g \in 1..Len(evaluatorAssignments) :
           evaluatorAssignments[g].applicationId = a
  /\ unassignedApps = 0
  /\ \A s \in Slots : \A n \in 1..Len(reqs[s].result) :
       reqs[s].kind = "alerts" => reqs[s].result[n].action # "Assign Evaluators"
  /\ \A n \in 1..Len(response.req.result) :
       response.req.kind = "alerts" =>
         response.req.result[n].action # "Assign Evaluators"

C30_Witness ==
  /\ response.req.kind = "alerts" /\ response.code = 200
  /\ \E a \in 1..Len(applications), g \in 1..Len(evaluatorAssignments) :
       /\ applications[a].status = "under_evaluation"
       /\ evaluatorAssignments[g].applicationId = a
       /\ evaluatorAssignments[g].completedAt # NULL
====
